---- MODULE Spec2Model ----
(***************************************************************************)
(* Verification model of the note_taker API (src/api/app).                 *)
(*                                                                         *)
(* Part I  : the request-governance pipeline of main.py                    *)
(*           EnhancedRateLimitMiddleware -> IdempotencyMiddleware ->       *)
(*           TelemetryMiddleware -> route handler.                         *)
(* Part II : OrchestratorService.handle_message and the request-scoped     *)
(*           data-store session around it.                                 *)
(*                                                                         *)
(* Time is counted in ticks, TicksPerSecond ticks to the second, so that   *)
(* the int() truncations of enhanced_rate_limit.py are visible.            *)
(* time.time() is taken to be non-decreasing; sha256 is taken to be        *)
(* injective on the strings it is given.                                   *)
(***************************************************************************)
EXTENDS Integers, Sequences, FiniteSets, TLC

\* ---------------------------------------------------------------- bounds
MaxReq == 3
MaxPipeReq == 2
MaxTime == 10
TicksPerSecond == 2

\* the configuration of main.py, scaled down
MsgLimit == 2
PostLimit == 2
DefaultLimit == 3
WindowSeconds == 1
CleanupWindows == 5

\* messages handled in one run of the orchestrator
MaxMsgs == 2

\* conversation ids the data store hands out in one run
MaxConversations == 3

\* messages posted to conversations in one run
MaxPosts == 2

\* how far below and above each threshold of the heuristics the measured
\* texts reach
Around == 1

\* OrchestratorService.context_window_size
ContextWindowSize == 10

\* OrchestratorService.brain_dump_threshold
BrainDumpThreshold == 100

\* OrchestratorService.max_context_tokens
MaxContextTokens == 4000

\* context messages handed to the truncation in one call
MaxContext == 3

\* resource ids addressed, and requests sent, in a run over unnamed classes
MaxIds == 4

VARIABLES
    default_config,   \* EnhancedRateLimitMiddleware.default_config
    endpoint_configs, \* EnhancedRateLimitMiddleware.endpoint_configs
    enable_cleanup,   \* EnhancedRateLimitMiddleware.enable_cleanup
    buckets,          \* EnhancedRateLimitMiddleware._buckets
    last_cleanup,     \* EnhancedRateLimitMiddleware._last_cleanup
    clock,            \* the latest reading of time.time(), in ticks
    cache,            \* IdempotencyMiddleware.cache
    entities,         \* number of entities the route handlers have created
    reqs,             \* every request received so far, with what became of it
    orch,             \* the handle_message call in progress: position and locals
    sess,             \* the request's data-store session (get_db)
    store,            \* the committed rows of the data store, oldest first
    trace,            \* what the current message has done so far, in order
    tables,           \* conversations, messages, notes and tasks of the data store
    last_delete,      \* the latest delete_conversation call and its response
    call              \* a helper of the orchestrator called on its own: argument and result

pipeVars == <<default_config, endpoint_configs, enable_cleanup, buckets,
              last_cleanup, clock, cache, entities, reqs>>

orchVars == <<orch, sess, store, trace>>

convVars == <<tables, last_delete>>

fnVars == <<call>>

\* ------------------------------------------------------- plain helpers

\* Python's int() on a quotient: truncation toward zero.
TruncDiv(x, d) == IF x >= 0 THEN x \div d ELSE -((-x) \div d)

\* seconds (an int field of RateLimitConfig) to ticks
Ticks(seconds) == seconds * TicksPerSecond

\* ------------------------------------------------- requests of the model
PathMsg1 == <<"/", "api", "/", "conversations", "/", "1", "/", "messages">>
PathMsg2 == <<"/", "api", "/", "conversations", "/", "2", "/", "messages">>
PathNotes == <<"/", "api", "/", "notes">>
PathTasks == <<"/", "api", "/", "tasks">>

NoKey == <<>>

EmptyBody == [detail |-> "", text |-> "", id |-> 0, retry_after |-> 0]
NoResp == [status |-> 0, body |-> EmptyBody, headers |-> <<>>]

\* ------------------------------------------- EnhancedRateLimitMiddleware
RateLimitConfig(l, w, ci) == [limit |-> l, window_seconds |-> w, cleanup_interval |-> ci]

GetConfigForEndpoint(endpoint) ==
    IF endpoint \in DOMAIN endpoint_configs THEN endpoint_configs[endpoint]
    ELSE default_config

GetUserKey(hdr, host) ==
    IF hdr # "" THEN hdr ELSE IF host # "" THEN host ELSE "anonymous"

\* "/<name>" in path
PathContains(path, name) ==
    \E i \in 1..(Len(path) - 1) : path[i] = "/" /\ path[i + 1] = name

Lower(method) == IF method = "POST" THEN "post" ELSE "get"

GetEndpointKey(method, path) ==
    IF method = "POST" /\ PathContains(path, "messages") THEN <<"messages:post">>
    ELSE IF method = "POST" /\ PathContains(path, "notes") THEN <<"notes:post">>
    ELSE IF method = "POST" /\ PathContains(path, "tasks") THEN <<"tasks:post">>
    ELSE <<Lower(method), ":">> \o path

\* while bucket and bucket[0] < cutoff: bucket.popleft()
RECURSIVE PopExpired(_, _)
PopExpired(bucket, cutoff) ==
    IF bucket # <<>> /\ Head(bucket) < cutoff
    THEN PopExpired(Tail(bucket), cutoff)
    ELSE bucket

\* self._buckets[user_key][endpoint_key] on the defaultdict of defaultdicts
BucketOf(B, u, e) ==
    IF u \in DOMAIN B /\ e \in DOMAIN B[u] THEN B[u][e] ELSE <<>>

WithBucket(B, u, e, q) ==
    [x \in DOMAIN B \cup {u} |->
        IF x = u
        THEN [y \in (IF u \in DOMAIN B THEN DOMAIN B[u] ELSE {}) \cup {e} |->
                 IF y = e THEN q ELSE B[u][y]]
        ELSE B[x]]

\* a plausible slip: the sweep keeps nothing
SweepCutoffNow(now) == now

\* The cutoff the sweep applies to every bucket.
SweepCutoff(now) == now - Ticks(default_config.window_seconds) * 2

SweepDue(lc, now) == ~(now - lc < Ticks(default_config.cleanup_interval))

CleanupOldBuckets(B, lc, now) ==
    IF ~SweepDue(lc, now) THEN [b |-> B, lc |-> lc]
    ELSE
        LET cutoff_time == SweepCutoff(now)
            kept(u) == {e \in DOMAIN B[u] : PopExpired(B[u][e], cutoff_time) # <<>>}
            users == {u \in DOMAIN B : kept(u) # {}}
        IN [b |-> [u \in users |-> [e \in kept(u) |-> PopExpired(B[u][e], cutoff_time)]],
            lc |-> now]

\* a plausible slip: `<=` for `<`
IsAllowedOffByOne(current_count, config) == current_count <= config.limit

IsAllowed(current_count, config) == current_count < config.limit

\* a plausible slip: the window is forgotten
ExpiryCutoffNoWindow(now, config) == now

ExpiryCutoff(now, config) == now - Ticks(config.window_seconds)

\* a plausible slip: the request just added is not accounted for
RemainingOfNoDecrement(current_count, config, is_allowed) ==
    IF config.limit - current_count > 0 THEN config.limit - current_count ELSE 0

RemainingOf(current_count, config, is_allowed) ==
    LET remaining == IF config.limit - current_count > 0
                     THEN config.limit - current_count ELSE 0
    IN IF is_allowed THEN remaining - 1 ELSE remaining

CheckRateLimit(B, user_key, endpoint_key, config, now) ==
    LET bucket == PopExpired(BucketOf(B, user_key, endpoint_key), ExpiryCutoff(now, config))
        current_count == Len(bucket)
        is_allowed == IsAllowed(current_count, config)
        reset_time == IF bucket # <<>>
                      THEN bucket[1] + Ticks(config.window_seconds)
                      ELSE now + Ticks(config.window_seconds)
    IN [is_allowed |-> is_allowed,
        remaining |-> RemainingOf(current_count, config, is_allowed),
        reset_time |-> reset_time,
        b |-> WithBucket(B, user_key, endpoint_key,
                         IF is_allowed THEN Append(bucket, now) ELSE bucket)]

\* int(reset_time - time.time()), the second reading of the clock being `later`
RetryAfter(reset_time, later) == TruncDiv(reset_time - later, TicksPerSecond)

RateLimitHeaders(config, remaining, reset_time) ==
    << <<"x-ratelimit-limit", config.limit>>,
       <<"x-ratelimit-remaining", remaining>>,
       <<"x-ratelimit-reset", TruncDiv(reset_time, TicksPerSecond)>>,
       <<"x-ratelimit-window", config.window_seconds>> >>

CreateRateLimitResponse(config, remaining, reset_time, later) ==
    [status |-> 429,
     body |-> [detail |-> "Rate limit exceeded", text |-> "", id |-> 0,
               retry_after |-> RetryAfter(reset_time, later)],
     headers |-> RateLimitHeaders(config, 0, reset_time)
                 \o << <<"retry-after", RetryAfter(reset_time, later)>> >>]

\* send_wrapper of EnhancedRateLimitMiddleware.__call__
AddRateLimitHeaders(resp, config, remaining, reset_time) ==
    [resp EXCEPT !.headers = @ \o RateLimitHeaders(config, remaining, reset_time)]

\* ------------------------------------------------- IdempotencyMiddleware
\* hashlib.sha256((request.url.path + "|" + key).encode()).hexdigest()
Fingerprint(path, key) == path \o <<"|">> \o key

\* the tuple stored under a fingerprint
CacheEntry(captured) ==
    [status |-> captured.status, body |-> captured.body, headers |-> captured.headers]

CacheStore(c, fingerprint, captured) ==
    [f \in DOMAIN c \cup {fingerprint} |->
        IF f = fingerprint THEN CacheEntry(captured) ELSE c[f]]

\* a plausible slip: the stored header list is not replayed
ReplayWithoutHeaders(c, fingerprint) == [c[fingerprint] EXCEPT !.headers = <<>>]

\* responder(send): what the gate sends for a known fingerprint
Replay(c, fingerprint) == c[fingerprint]

\* if not key: pass through; if fingerprint in self.cache: replay
IdemHit(c, path, key) == key # NoKey /\ Fingerprint(path, key) \in DOMAIN c

\* --------------------------------------------------- TelemetryMiddleware
\* send_wrapper: x-request-id and x-response-time are appended
AddTelemetryHeaders(resp, request_id, start, now) ==
    [resp EXCEPT !.headers = @ \o
        << <<"x-request-id", request_id>>,
           <<"x-response-time", ((now - start) * 1000) \div TicksPerSecond>> >>]

\* ------------------------------------------------------- route handlers
Outcomes == {"ok", "http_error", "raise"}

\* post_message and its siblings, seen from the middleware: a 200 carrying the
\* entity just created, an HTTPException turned into a response, or an
\* exception that nothing below the middleware catches.
HandlerResponse(out, text, next_id) ==
    IF out = "ok"
    THEN [status |-> 200,
          body |-> [detail |-> "", text |-> text, id |-> next_id, retry_after |-> 0],
          headers |-> << <<"content-type", 0>> >>]
    ELSE [status |-> 404,
          body |-> [detail |-> "Conversation not found", text |-> "", id |-> 0,
                    retry_after |-> 0],
          headers |-> << <<"content-type", 0>> >>]

\* what the server answers when the exception leaves the middleware stack
ServerError ==
    [status |-> 500,
     body |-> [detail |-> "Internal Server Error", text |-> "", id |-> 0, retry_after |-> 0],
     headers |-> <<>>]

\* ---- the request lifecycle events of TelemetryMiddleware, keyed by the
\* request id (uuid4, taken to be unique: the request's number)
RequestStart(request_id) == [ev |-> "start", id |-> request_id]

\* not an event of the stream: marks the point where self.app was awaited
AppRan(request_id) == [ev |-> "app", id |-> request_id]

\* a middleware that lets a downstream exception pass without its except clause
RequestEndNoExcept(request_id, out) ==
    IF out = "raise" THEN <<>> ELSE << [ev |-> "end", id |-> request_id] >>

\* telemetry.py 77-78 and 80-89
RequestEnd(request_id, out) ==
    IF out = "raise"
    THEN << [ev |-> "end_error", id |-> request_id] >>
    ELSE << [ev |-> "end", id |-> request_id] >>

\* ------------------------------------------------------------- pipeline
DoneSet == {j \in 1..Len(reqs) : reqs[j].stage = "done"}

\* One request from its arrival to the first point where its coroutine is
\* suspended: EnhancedRateLimitMiddleware.__call__ (sweep, check), then
\* IdempotencyMiddleware.__call__ (lookup, replay), then the start of
\* TelemetryMiddleware.__call__.  No await lies between these steps.
Enter(hdr, host, method, path, key, text, now, late) ==
    /\ now >= clock /\ now + late <= MaxTime
    /\ LET user_key == GetUserKey(hdr, host)
           endpoint_key == GetEndpointKey(method, path)
           config == GetConfigForEndpoint(endpoint_key)
           swept == IF enable_cleanup
                    THEN CleanupOldBuckets(buckets, last_cleanup, now)
                    ELSE [b |-> buckets, lc |-> last_cleanup]
           chk == CheckRateLimit(swept.b, user_key, endpoint_key, config, now)
           base == [hdr |-> hdr, user_key |-> user_key, method |-> method, path |-> path,
                    endpoint_key |-> endpoint_key, key |-> key, text |-> text,
                    config |-> config, now |-> now, swept |-> (swept.lc # last_cleanup),
                    is_allowed |-> chk.is_allowed, remaining |-> chk.remaining,
                    reset_time |-> chk.reset_time, doneBefore |-> DoneSet,
                    invoked |-> FALSE, executed |-> FALSE, via |-> "rate_limited",
                    stage |-> "done", captured |-> NoResp, client |-> NoResp,
                    events |-> <<>>]
       IN /\ buckets' = chk.b
          /\ last_cleanup' = swept.lc
          /\ IF ~chk.is_allowed
             THEN /\ clock' = now + late
                  /\ reqs' = Append(reqs, [base EXCEPT
                        !.client = CreateRateLimitResponse(config, chk.remaining,
                                                           chk.reset_time, now + late)])
             ELSE /\ late = 0
                  /\ clock' = now
                  /\ IF IdemHit(cache, path, key)
                     THEN reqs' = Append(reqs, [base EXCEPT
                            !.via = "replay",
                            !.captured = Replay(cache, Fingerprint(path, key)),
                            !.client = AddRateLimitHeaders(
                                          Replay(cache, Fingerprint(path, key)),
                                          config, chk.remaining, chk.reset_time)])
                     ELSE reqs' = Append(reqs, [base EXCEPT
                            !.via = "downstream", !.invoked = TRUE, !.stage = "app",
                            !.events = <<RequestStart(Len(reqs) + 1)>>])
    /\ UNCHANGED <<default_config, endpoint_configs, enable_cleanup, cache, entities>>
    /\ UNCHANGED <<orchVars, convVars, fnVars>>

\* The route handler runs and its response travels out through the three
\* send_wrappers; or it raises, and the exception unwinds the whole stack
\* (telemetry.py 80-92 re-raises, idempotency.py 49 stores nothing).
Handle(i, out, now) ==
    /\ i \in 1..Len(reqs) /\ reqs[i].stage = "app"
    /\ now >= clock /\ now <= MaxTime
    /\ clock' = now
    /\ LET r == reqs[i] IN
       IF out = "raise"
       THEN /\ reqs' = [reqs EXCEPT ![i] = [r EXCEPT
                 !.executed = TRUE, !.via = "exception", !.stage = "done",
                 !.client = ServerError,
                 !.events = @ \o <<AppRan(i)>> \o RequestEnd(i, out)]]
            /\ entities' = entities
       ELSE LET sent == AddTelemetryHeaders(HandlerResponse(out, r.text, entities + 1),
                                            i, r.now, now)
            IN /\ reqs' = [reqs EXCEPT ![i] = [r EXCEPT
                      !.executed = TRUE, !.stage = "responded", !.captured = sent,
                      !.events = @ \o <<AppRan(i)>> \o RequestEnd(i, out),
                      !.client = AddRateLimitHeaders(sent, r.config, r.remaining,
                                                     r.reset_time)]]
               /\ entities' = IF out = "ok" THEN entities + 1 ELSE entities
    /\ UNCHANGED <<default_config, endpoint_configs, enable_cleanup, buckets,
                   last_cleanup, cache>>
    /\ UNCHANGED <<orchVars, convVars, fnVars>>

\* `await self.app(...)` returns in IdempotencyMiddleware.__call__: the captured
\* response is stored under the fingerprint.
Finish(i) ==
    /\ i \in 1..Len(reqs) /\ reqs[i].stage = "responded"
    /\ LET r == reqs[i] IN
       /\ cache' = IF r.key # NoKey
                   THEN CacheStore(cache, Fingerprint(r.path, r.key), r.captured)
                   ELSE cache
       /\ reqs' = [reqs EXCEPT ![i] = [r EXCEPT !.stage = "done"]]
    /\ UNCHANGED <<default_config, endpoint_configs, enable_cleanup, buckets,
                   last_cleanup, clock, entities>>
    /\ UNCHANGED <<orchVars, convVars, fnVars>>

\* ==================================================================
\* Part II: OrchestratorService.handle_message (orchestrator_service.py)
\* inside post_message (routes/messages.py) and its request-scoped session.
\* handle_message is synchronous: one message is handled at a time.
\* ==================================================================

\* what matters of a text: how many of the six brain-dump indicators fire,
\* whether it holds a configured task keyword, whether it holds one of the
\* explicit task markers of _validate_classification
Texts == [indicators : {1, 2}, task_kw : BOOLEAN, marker : BOOLEAN]

\* the collaborators that may raise while a message is handled: the data
\* store, the prompt configuration (prompts/manager.py 46, 83), telemetry
Faults == SUBSET {"db", "cfg", "tel"}

NoOutput == [kind |-> "none", items |-> <<>>]

\* provider.generate for the simple prompt: it raises, or returns text that
\* json.loads rejects, a JSON value that is no object, or an object
SimpleOutputs ==
    {[kind |-> k, items |-> <<>>] :
        k \in {"raise", "unparseable", "not_object", "note", "task",
               "task_bad_payload", "other"}}

\* items of a brain-dump answer: a task, a note, or something that is no dict
BrainItems == {<<>>, <<"task">>, <<"note", "task">>, <<"junk", "note">>}

\* provider.generate for the brain-dump prompt, after the fence stripping and
\* bracket repair of lines 158-181
BrainOutputs ==
    {[kind |-> k, items |-> <<>>] :
        k \in {"raise", "unparseable", "not_object", "wrong_type"}}
    \cup {[kind |-> "brain_dump", items |-> s] : s \in BrainItems}

\* one entry of the log of provider.generate calls: which prompt, and whether
\* the call raised, returned something the path cannot use, or something it can
CallOf(path, out) ==
    [path |-> path,
     kind |-> CASE out.kind = "raise" -> "raise"
                [] out.kind \in {"unparseable", "not_object"} -> "unusable"
                [] path = "brain_dump" /\ out.kind = "wrong_type" -> "unusable"
                [] OTHER -> "usable"]

Row(kind, msg) == [kind |-> kind, msg |-> msg]

\* ---- the SQLAlchemy session handed out by get_db
NewSession == [flushed |-> <<>>, inactive |-> FALSE]

\* db.add(x); db.flush() succeeded: the row is in the open transaction
FlushOk(s, row) == [s EXCEPT !.flushed = Append(@, row)]

\* a failed flush that leaves the earlier rows in a usable session
FlushFailedKeepsRows == [flushed |-> sess.flushed, inactive |-> FALSE]

\* db.flush() raised: the transaction is rolled back and the session refuses
\* further statements until rollback() is called
FlushFailed == [flushed |-> <<>>, inactive |-> TRUE]

\* a commit that loses what was flushed before it
CommitOkLosesFlushed(st, s, rows) == st \o rows

\* db.add(x); db.commit() succeeded: everything flushed becomes durable
CommitOk(st, s, rows) == st \o s.flushed \o rows

\* the log of a data-store call that raised of its own accord (a session that
\* awaits its rollback refuses the call without asking the store)
DbFailed(t) == IF sess.inactive THEN t ELSE Append(t, "db_failed")

\* may this data-store call succeed / fail now
DbCan(ok) == IF ok THEN ~sess.inactive ELSE ("db" \in orch.faults \/ sess.inactive)

CfgCan(ok) == ok \/ "cfg" \in orch.faults

TelCan(ok) == ok \/ "tel" \in orch.faults

\* ---- pure parts of the orchestrator
IsBrainDump(text) == text.indicators >= 2

ValidateClassification(text, kind) ==
    IF kind = "note" /\ text.marker THEN "task" ELSE kind

\* line 303: a Task only for type "task" with a dict payload
EntityKind(kind) == IF kind = "task" THEN "task" ELSE "note"

\* a fallback that ignores the task keywords
FallbackKindAlwaysNote(text) == "note"

\* lines 363-364
FallbackKind(text) == IF text.task_kw THEN "task" ELSE "note"

LastN(s, n) == IF Len(s) <= n THEN s ELSE SubSeq(s, Len(s) - n + 1, Len(s))

RECURSIVE DropLeadingUser(_)
DropLeadingUser(s) ==
    IF s # <<>> /\ Head(s).kind = "user" THEN DropLeadingUser(Tail(s)) ELSE s

IsMessage(row) == row.kind \in {"user", "assistant"}

\* _get_conversation_context over the rows the session can see
GetConversationContext(rows) ==
    DropLeadingUser(LastN(SelectSeq(rows, IsMessage), ContextWindowSize))

\* where an exception leaving _process_simple_message lands
SimpleRaisesTo(caller) ==
    CASE caller = "hm" -> "hm_except"
      [] caller = "bd_try" -> "bd_except"
      [] caller = "bd_except" -> "hm_except"

Idle ==
    [pc |-> "idle", msg |-> 0,
     text |-> [indicators |-> 1, task_kw |-> FALSE, marker |-> FALSE],
     faults |-> {}, caller |-> "hm", llm_out |-> NoOutput, items |-> <<>>,
     created |-> 0, entity |-> "none", input_type |-> "none",
     result |-> "none", total_items |-> 0, reraised |-> FALSE,
     outcome |-> "none", ctx |-> <<>>, calls |-> <<>>, raised_at |-> "none"]

\* the request is over: the locals of handle_message are gone, what the
\* message was and what became of it stays for inspection
Ended(outcome) ==
    [Idle EXCEPT !.msg = orch.msg, !.text = orch.text, !.faults = orch.faults,
                 !.input_type = orch.input_type, !.result = orch.result,
                 !.total_items = orch.total_items, !.created = orch.created,
                 !.reraised = orch.reraised, !.calls = orch.calls,
                 !.raised_at = orch.raised_at,
                 !.outcome = outcome]

\* ---- post_message up to the call of handle_message
Receive(text, faults, exists) ==
    /\ orch.pc = "idle" /\ orch.outcome = "none" /\ orch.msg < MaxMsgs
    /\ sess' = NewSession
    /\ trace' = <<>>
    /\ orch' = IF exists
               THEN [Idle EXCEPT !.pc = "hm_flush", !.msg = orch.msg + 1,
                                 !.text = text, !.faults = faults]
               ELSE [Idle EXCEPT !.msg = orch.msg, !.outcome = "http_404"]
    /\ UNCHANGED <<store, pipeVars, convVars, fnVars>>

\* ---- handle_message
\* 405-412
HmFlushUser(ok) ==
    /\ orch.pc = "hm_flush" /\ DbCan(ok)
    /\ IF ok
       THEN /\ sess' = FlushOk(sess, Row("user", orch.msg))
            /\ trace' = Append(trace, "flush_user")
            /\ orch' = [orch EXCEPT !.pc = "hm_activity"]
       ELSE /\ sess' = FlushFailed
            /\ trace' = DbFailed(trace)
            /\ orch' = [orch EXCEPT !.pc = "route_exc", !.raised_at = "persist_user"]
    /\ UNCHANGED <<store, pipeVars, convVars, fnVars>>

\* 415-421
HmLogActivity(ok) ==
    /\ orch.pc = "hm_activity" /\ TelCan(ok)
    /\ IF ok
       THEN /\ trace' = Append(trace, "ev_user_activity")
            /\ orch' = [orch EXCEPT !.pc = "hm_context"]
       ELSE /\ trace' = trace
            /\ orch' = [orch EXCEPT !.pc = "route_exc", !.raised_at = "user_activity"]
    /\ UNCHANGED <<sess, store, pipeVars, convVars, fnVars>>

\* 424
HmContext(ok) ==
    /\ orch.pc = "hm_context" /\ DbCan(ok)
    /\ orch' = IF ok
               THEN [orch EXCEPT !.pc = "hm_detect",
                                 !.ctx = GetConversationContext(store \o sess.flushed)]
               ELSE [orch EXCEPT !.pc = "route_exc", !.raised_at = "context"]
    /\ trace' = IF ok THEN trace ELSE DbFailed(trace)
    /\ UNCHANGED <<sess, store, pipeVars, convVars, fnVars>>

\* 427-434
HmDetect(ok) ==
    /\ orch.pc = "hm_detect" /\ CfgCan(ok)
    /\ orch' = IF ~ok
               THEN [orch EXCEPT !.pc = "route_exc", !.raised_at = "detection"]
               ELSE IF IsBrainDump(orch.text)
               THEN [orch EXCEPT !.pc = "bd_prompt", !.input_type = "brain_dump"]
               ELSE [orch EXCEPT !.pc = "sm_prompt", !.input_type = "simple_message",
                                 !.caller = "hm"]
    /\ UNCHANGED <<sess, store, trace, pipeVars, convVars, fnVars>>

\* ---- _process_simple_message
\* 261-272, outside the try
SmPrompt(ok) ==
    /\ orch.pc = "sm_prompt" /\ CfgCan(ok)
    /\ orch' = IF ok
               THEN [orch EXCEPT !.pc = "sm_llm"]
               ELSE [orch EXCEPT !.pc = SimpleRaisesTo(orch.caller)]
    /\ UNCHANGED <<sess, store, trace, pipeVars, convVars, fnVars>>

\* 276
SmLlm(out) ==
    /\ orch.pc = "sm_llm"
    /\ trace' = Append(trace, "llm_call")
    /\ orch' = IF out.kind = "raise"
               THEN [orch EXCEPT !.pc = "sm_fallback",
                        !.calls = Append(@, CallOf("simple", out))]
               ELSE [orch EXCEPT !.pc = "sm_log", !.llm_out = out,
                        !.calls = Append(@, CallOf("simple", out))]
    /\ UNCHANGED <<sess, store, pipeVars, convVars, fnVars>>

\* 286-296
SmLog(ok) ==
    /\ orch.pc = "sm_log" /\ TelCan(ok)
    /\ IF ok
       THEN /\ trace' = Append(trace, "ev_llm_call")
            /\ orch' = [orch EXCEPT !.pc = "sm_parse"]
       ELSE /\ trace' = trace
            /\ orch' = [orch EXCEPT !.pc = "sm_fallback"]
    /\ UNCHANGED <<sess, store, pipeVars, convVars, fnVars>>

\* 297-303
SmParse(ok) ==
    /\ orch.pc = "sm_parse" /\ CfgCan(ok)
    /\ orch' = IF ~ok \/ orch.llm_out.kind \in {"unparseable", "not_object"}
               THEN [orch EXCEPT !.pc = "sm_fallback"]
               ELSE [orch EXCEPT !.pc = "sm_entity",
                        !.entity = EntityKind(
                            ValidateClassification(orch.text, orch.llm_out.kind))]
    /\ UNCHANGED <<sess, store, trace, pipeVars, convVars, fnVars>>

\* 314-316, 340-342
SmEntity(ok) ==
    /\ orch.pc = "sm_entity" /\ DbCan(ok)
    /\ IF ok
       THEN /\ sess' = FlushOk(sess, Row(orch.entity, orch.msg))
            /\ orch' = [orch EXCEPT !.pc = "sm_commit"]
       ELSE /\ sess' = FlushFailed
            /\ orch' = [orch EXCEPT !.pc = "sm_fallback"]
    /\ trace' = IF ok THEN trace ELSE DbFailed(trace)
    /\ UNCHANGED <<store, pipeVars, convVars, fnVars>>

\* 319-330, 345-356
SmCommit(ok) ==
    /\ orch.pc = "sm_commit" /\ DbCan(ok)
    /\ sess' = NewSession
    /\ IF ok
       THEN /\ store' = CommitOk(store, sess, <<Row("assistant", orch.msg)>>)
            /\ trace' = Append(trace, "commit")
            /\ orch' = [orch EXCEPT !.pc = "hm_success", !.result = orch.entity]
       ELSE /\ store' = store
            /\ trace' = DbFailed(trace)
            /\ orch' = [orch EXCEPT !.pc = "sm_fallback"]
    /\ UNCHANGED <<pipeVars, convVars, fnVars>>

\* 358-364
SmFallback(ok) ==
    /\ orch.pc = "sm_fallback" /\ CfgCan(ok)
    /\ orch' = IF ok
               THEN [orch EXCEPT !.pc = "fb_entity", !.entity = FallbackKind(orch.text)]
               ELSE [orch EXCEPT !.pc = SimpleRaisesTo(orch.caller)]
    /\ UNCHANGED <<sess, store, trace, pipeVars, convVars, fnVars>>

\* 365-369, 383-387
FbEntity(ok) ==
    /\ orch.pc = "fb_entity" /\ DbCan(ok)
    /\ IF ok
       THEN /\ sess' = FlushOk(sess, Row(orch.entity, orch.msg))
            /\ orch' = [orch EXCEPT !.pc = "fb_commit"]
       ELSE /\ sess' = FlushFailed
            /\ orch' = [orch EXCEPT !.pc = SimpleRaisesTo(orch.caller)]
    /\ trace' = IF ok THEN trace ELSE DbFailed(trace)
    /\ UNCHANGED <<store, pipeVars, convVars, fnVars>>

\* 371-381, 389-399
FbCommit(ok) ==
    /\ orch.pc = "fb_commit" /\ DbCan(ok)
    /\ sess' = NewSession
    /\ IF ok
       THEN /\ store' = CommitOk(store, sess, <<Row("assistant", orch.msg)>>)
            /\ trace' = Append(trace, "commit")
            /\ orch' = [orch EXCEPT !.pc = "hm_success", !.result = orch.entity]
       ELSE /\ store' = store
            /\ trace' = DbFailed(trace)
            /\ orch' = [orch EXCEPT !.pc = SimpleRaisesTo(orch.caller)]
    /\ UNCHANGED <<pipeVars, convVars, fnVars>>

\* ---- _process_brain_dump
\* 118-129, outside the try
BdPrompt(ok) ==
    /\ orch.pc = "bd_prompt" /\ CfgCan(ok)
    /\ orch' = IF ok
               THEN [orch EXCEPT !.pc = "bd_llm"]
               ELSE [orch EXCEPT !.pc = "hm_except"]
    /\ UNCHANGED <<sess, store, trace, pipeVars, convVars, fnVars>>

\* 134
BdLlm(out) ==
    /\ orch.pc = "bd_llm"
    /\ trace' = Append(trace, "llm_call")
    /\ orch' = IF out.kind = "raise"
               THEN [orch EXCEPT !.pc = "bd_except",
                        !.calls = Append(@, CallOf("brain_dump", out))]
               ELSE [orch EXCEPT !.pc = "bd_log", !.llm_out = out,
                        !.calls = Append(@, CallOf("brain_dump", out))]
    /\ UNCHANGED <<sess, store, pipeVars, convVars, fnVars>>

\* 146-156
BdLog(ok) ==
    /\ orch.pc = "bd_log" /\ TelCan(ok)
    /\ IF ok
       THEN /\ trace' = Append(trace, "ev_llm_call")
            /\ orch' = [orch EXCEPT !.pc = "bd_parse"]
       ELSE /\ trace' = trace
            /\ orch' = [orch EXCEPT !.pc = "bd_except"]
    /\ UNCHANGED <<sess, store, pipeVars, convVars, fnVars>>

\* 158-188
BdParse ==
    /\ orch.pc = "bd_parse"
    /\ orch' = CASE orch.llm_out.kind \in {"unparseable", "not_object"} ->
                        [orch EXCEPT !.pc = "bd_except"]
                 [] orch.llm_out.kind = "wrong_type" ->
                        [orch EXCEPT !.pc = "sm_prompt", !.caller = "bd_try"]
                 [] OTHER ->
                        [orch EXCEPT !.pc = "bd_item", !.items = orch.llm_out.items,
                                     !.created = 0]
    /\ UNCHANGED <<sess, store, trace, pipeVars, convVars, fnVars>>

\* 191-223, one turn of the loop
BdItem(ok) ==
    /\ orch.pc = "bd_item" /\ orch.items # <<>>
    /\ IF Head(orch.items) = "junk"
       THEN /\ ok
            /\ sess' = sess
            /\ orch' = [orch EXCEPT !.items = Tail(@)]
       ELSE /\ DbCan(ok)
            /\ IF ok
               THEN /\ sess' = FlushOk(sess, Row(Head(orch.items), orch.msg))
                    /\ orch' = [orch EXCEPT !.items = Tail(@), !.created = @ + 1]
               ELSE /\ sess' = FlushFailed
                    /\ orch' = [orch EXCEPT !.pc = "bd_except"]
    /\ trace' = IF ok THEN trace ELSE Append(trace, "item_failed")
    /\ UNCHANGED <<store, pipeVars, convVars, fnVars>>

\* 225-250
BdCommit(ok) ==
    /\ orch.pc = "bd_item" /\ orch.items = <<>> /\ DbCan(ok)
    /\ sess' = NewSession
    /\ IF ok
       THEN /\ store' = CommitOk(store, sess, <<Row("assistant", orch.msg)>>)
            /\ trace' = Append(trace, "commit")
            /\ orch' = [orch EXCEPT !.pc = "hm_success", !.result = "brain_dump",
                                    !.total_items = orch.created]
       ELSE /\ store' = store
            /\ trace' = DbFailed(trace)
            /\ orch' = [orch EXCEPT !.pc = "bd_except"]
    /\ UNCHANGED <<pipeVars, convVars, fnVars>>

\* 252-257
BdExcept ==
    /\ orch.pc = "bd_except"
    /\ orch' = [orch EXCEPT !.pc = "sm_prompt", !.caller = "bd_except"]
    /\ UNCHANGED <<sess, store, trace, pipeVars, convVars, fnVars>>

\* ---- handle_message, the end
\* 436-456
HmSuccess(ok) ==
    /\ orch.pc = "hm_success" /\ TelCan(ok)
    /\ IF ok
       THEN /\ trace' = Append(trace, "ev_result_ok")
            /\ orch' = [orch EXCEPT !.pc = "route_ok"]
       ELSE /\ trace' = trace
            /\ orch' = [orch EXCEPT !.pc = "hm_except"]
    /\ UNCHANGED <<sess, store, pipeVars, convVars, fnVars>>

\* 458-473
HmExcept(ok) ==
    /\ orch.pc = "hm_except" /\ TelCan(ok)
    /\ trace' = IF ok THEN Append(trace, "ev_result_fail") ELSE trace
    /\ orch' = [orch EXCEPT !.pc = "route_exc", !.reraised = TRUE,
                            !.raised_at = "try_block"]
    /\ UNCHANGED <<sess, store, pipeVars, convVars, fnVars>>

\* ---- get_db after the yield (conftest.py 94-104)
\* the route returned: db.commit(), and on failure rollback and raise
RouteOk(ok) ==
    /\ orch.pc = "route_ok" /\ DbCan(ok)
    /\ sess' = NewSession
    /\ IF ok
       THEN /\ store' = CommitOk(store, sess, <<>>)
            /\ trace' = Append(trace, "commit")
            /\ orch' = Ended("returned")
       ELSE /\ store' = store
            /\ trace' = Append(DbFailed(trace), "rollback")
            /\ orch' = Ended("raised")
    /\ UNCHANGED <<pipeVars, convVars, fnVars>>

\* the route raised: db.rollback(); raise
RouteExc ==
    /\ orch.pc = "route_exc"
    /\ sess' = NewSession
    /\ trace' = Append(trace, "rollback")
    /\ orch' = Ended("raised")
    /\ UNCHANGED <<store, pipeVars, convVars, fnVars>>

\* finally: db.close() (conftest.py 103-104); the response is out and nothing
\* of the request remains but the committed rows
Close ==
    /\ orch.pc = "idle" /\ orch.outcome # "none"
    /\ sess' = NewSession
    /\ trace' = <<>>
    /\ orch' = [Idle EXCEPT !.msg = orch.msg]
    /\ UNCHANGED <<store, pipeVars, convVars, fnVars>>

NextOrch ==
    \/ \E t \in Texts, f \in Faults, exists \in BOOLEAN : Receive(t, f, exists)
    \/ \E ok \in BOOLEAN : HmFlushUser(ok)
    \/ \E ok \in BOOLEAN : HmLogActivity(ok)
    \/ \E ok \in BOOLEAN : HmContext(ok)
    \/ \E ok \in BOOLEAN : HmDetect(ok)
    \/ \E ok \in BOOLEAN : SmPrompt(ok)
    \/ \E out \in SimpleOutputs : SmLlm(out)
    \/ \E ok \in BOOLEAN : SmLog(ok)
    \/ \E ok \in BOOLEAN : SmParse(ok)
    \/ \E ok \in BOOLEAN : SmEntity(ok)
    \/ \E ok \in BOOLEAN : SmCommit(ok)
    \/ \E ok \in BOOLEAN : SmFallback(ok)
    \/ \E ok \in BOOLEAN : FbEntity(ok)
    \/ \E ok \in BOOLEAN : FbCommit(ok)
    \/ \E ok \in BOOLEAN : BdPrompt(ok)
    \/ \E out \in BrainOutputs : BdLlm(out)
    \/ \E ok \in BOOLEAN : BdLog(ok)
    \/ BdParse
    \/ \E ok \in BOOLEAN : BdItem(ok)
    \/ \E ok \in BOOLEAN : BdCommit(ok)
    \/ BdExcept
    \/ \E ok \in BOOLEAN : HmSuccess(ok)
    \/ \E ok \in BOOLEAN : HmExcept(ok)
    \/ \E ok \in BOOLEAN : RouteOk(ok)
    \/ RouteExc
    \/ Close


\* =====================================================================
\* Part III.  Conversations and the rows that reference them
\* =====================================================================

\* create_conversation and list_conversations work for the default user only
DefaultUser == 1

NoDelete == [conversation_id |-> 0, found |-> FALSE, status |-> 0,
             new_conversation_id |-> 0, user_id |-> 0]

\* the lifespan hook: the default user's default conversation, id 1; every
\* table hands out ids in increasing order and never twice
InitConv ==
    /\ tables = [conversations |-> {[id |-> 1, user_id |-> DefaultUser]},
                 messages |-> {},
                 entities |-> {},
                 next_id |-> [t \in {"conversations", "messages", "notes", "tasks"} |->
                                 IF t = "conversations" THEN 2 ELSE 1]]
    /\ last_delete = NoDelete

ConversationOf(conversation_id) == {c \in tables.conversations : c.id = conversation_id}

MessagesOf(conversation_id) ==
    {m \in tables.messages : m.conversation_id = conversation_id}

\* the Note and Task rows whose conversation_id column, a foreign key with no
\* ON DELETE rule, points at the conversation
ReferencesTo(conversation_id) ==
    {e \in tables.entities : e.conversation_id = conversation_id}

ConversationsOfUser(t, user_id) == {c \in t.conversations : c.user_id = user_id}

\* POST /api/conversations
CreateConversation ==
    /\ tables.next_id["conversations"] <= MaxConversations
    /\ tables' = [tables EXCEPT
                    !.conversations = @ \cup {[id |-> tables.next_id["conversations"],
                                               user_id |-> DefaultUser]},
                    !.next_id["conversations"] = @ + 1]
    /\ UNCHANGED <<last_delete, pipeVars, orchVars, fnVars>>

\* POST /api/conversations/{id}/messages handled to the end: 404 when the
\* conversation is missing, else the user message, the Note or Task made from
\* it (table) and the assistant message, all written with the conversation's id
PostMessage(conversation_id, table) ==
    /\ tables.next_id["messages"] + 1 <= 2 * MaxPosts
    /\ IF ConversationOf(conversation_id) = {}
       THEN UNCHANGED tables
       ELSE LET m == tables.next_id["messages"]
                e == tables.next_id[table]
            IN  tables' = [tables EXCEPT
                    !.messages = @ \cup {[id |-> m, conversation_id |-> conversation_id],
                                         [id |-> m + 1, conversation_id |-> conversation_id]},
                    !.entities = @ \cup {[table |-> table, id |-> e,
                                          conversation_id |-> conversation_id]},
                    !.next_id["messages"] = @ + 2,
                    !.next_id[table] = @ + 1]
    /\ UNCHANGED <<last_delete, pipeVars, orchVars, fnVars>>

\* DELETE /api/notes/{id} and DELETE /api/tasks/{id}
DeleteEntity(table, id) ==
    /\ \E e \in tables.entities : e.table = table /\ e.id = id
    /\ tables' = [tables EXCEPT
                    !.entities = {e \in @ : ~(e.table = table /\ e.id = id)}]
    /\ UNCHANGED <<last_delete, pipeVars, orchVars, fnVars>>

\* DELETE /api/conversations/{id}, with the session dependency around it.
\* The messages are deleted in the open transaction; the commit then deletes
\* the conversation row, which the data store refuses while a Note or Task row
\* still points at it: the commit raises, the transaction (the deletion of the
\* messages included) is rolled back and the request ends in a server error.
DeleteConversation(conversation_id) ==
    LET conversation == ConversationOf(conversation_id)
    IN  /\ IF conversation = {}
           THEN /\ last_delete' = [conversation_id |-> conversation_id, found |-> FALSE,
                                   status |-> 404, new_conversation_id |-> 0,
                                   user_id |-> 0]
                /\ UNCHANGED tables
           ELSE LET user_id == (CHOOSE c \in conversation : TRUE).user_id
                    deleted == [tables EXCEPT
                                  !.messages = @ \ MessagesOf(conversation_id),
                                  !.conversations = @ \ conversation]
                    remaining == Cardinality(ConversationsOfUser(deleted, user_id))
                    new_id == tables.next_id["conversations"]
                IN  IF ReferencesTo(conversation_id) # {}
                    THEN /\ last_delete' = [conversation_id |-> conversation_id,
                                            found |-> TRUE, status |-> 500,
                                            new_conversation_id |-> 0,
                                            user_id |-> user_id]
                         /\ UNCHANGED tables
                    ELSE IF remaining = 0
                    THEN /\ new_id <= MaxConversations
                         /\ tables' = [deleted EXCEPT
                                         !.conversations = @ \cup {[id |-> new_id,
                                                                    user_id |-> user_id]},
                                         !.next_id["conversations"] = @ + 1]
                         /\ last_delete' = [conversation_id |-> conversation_id,
                                            found |-> TRUE, status |-> 200,
                                            new_conversation_id |-> new_id,
                                            user_id |-> user_id]
                    ELSE /\ tables' = deleted
                         /\ last_delete' = [conversation_id |-> conversation_id,
                                            found |-> TRUE, status |-> 200,
                                            new_conversation_id |-> 0,
                                            user_id |-> user_id]
        /\ UNCHANGED <<pipeVars, orchVars, fnVars>>

NextConv ==
    \/ CreateConversation
    \/ \E c \in 1..MaxConversations, t \in {"notes", "tasks"} : PostMessage(c, t)
    \/ \E t \in {"notes", "tasks"}, id \in 1..MaxPosts : DeleteEntity(t, id)
    \/ \E c \in 1..MaxConversations : DeleteConversation(c)

\* ------------------------------------------------------ construction
NoCall == [fn |-> "none", done |-> FALSE]

InitState(d, e, c, k) ==
    /\ default_config = d
    /\ endpoint_configs = e
    /\ enable_cleanup = c
    /\ buckets = <<>>
    /\ last_cleanup = 0
    /\ clock = 0
    /\ cache = <<>>
    /\ entities = 0
    /\ reqs = <<>>
    /\ orch = Idle
    /\ sess = NewSession
    /\ store = <<>>
    /\ trace = <<>>
    /\ InitConv
    /\ call = k

InitPipe(d, e, c) == InitState(d, e, c, NoCall)

\* main.py 69-80: every class has the same window, the message class the
\* smallest limit, the default the largest; cleanup_interval keeps its default
\* of five such windows (enhanced_rate_limit.py 19).  The numbers are scaled
\* down from 10/20/30 requests per 60 s and 300 s.
MainDefaultConfig == RateLimitConfig(DefaultLimit, WindowSeconds, CleanupWindows * WindowSeconds)
MainEndpointConfigs ==
    [k \in {<<"messages:post">>, <<"notes:post">>, <<"tasks:post">>} |->
        IF k = <<"messages:post">>
        THEN RateLimitConfig(MsgLimit, WindowSeconds, CleanupWindows * WindowSeconds)
        ELSE RateLimitConfig(PostLimit, WindowSeconds, CleanupWindows * WindowSeconds)]

InitMain == InitPipe(MainDefaultConfig, MainEndpointConfigs, TRUE)

\* ------------------------------------------------ the rate limiter alone
RLSenders == {[hdr |-> "u1", method |-> "POST", path |-> PathMsg1],
              [hdr |-> "u2", method |-> "POST", path |-> PathMsg1],
              [hdr |-> "u1", method |-> "GET", path |-> PathNotes]}

AllDone == \A j \in 1..Len(reqs) : reqs[j].stage = "done"

\* one request after another, as the test client sends them
NextRL ==
    \/ \E s \in RLSenders, now \in 0..MaxTime, late \in 0..1 :
          Len(reqs) < MaxReq /\ AllDone /\ Enter(s.hdr, "h1", s.method, s.path, NoKey, "t", now, late)
    \/ \E i \in 1..MaxReq : Handle(i, "ok", clock)
    \/ \E i \in 1..MaxReq : Finish(i)

\* requests of one user-key and class handled concurrently
NextRLConc ==
    \/ \E now \in 0..MaxTime, late \in 0..1 :
          Len(reqs) < MaxReq /\ Enter("u1", "h1", "POST", PathMsg1, NoKey, "t", now, late)
    \/ \E i \in 1..MaxReq : Handle(i, "ok", clock)
    \/ \E i \in 1..MaxReq : Finish(i)

\* any construction of the middleware: default and per-class limits and
\* windows that differ, the sweep enabled or not
AnyDefaults == {RateLimitConfig(2, 1, 1)}
AnyClassConfigs == {RateLimitConfig(2, 1, 300), RateLimitConfig(1, 3, 300)}

InitRLAny ==
    \E d \in AnyDefaults, m \in AnyClassConfigs, c \in BOOLEAN :
        InitPipe(d, [k \in {<<"messages:post">>} |-> m], c)

\* ---------------------------------------------------- the whole pipeline
K1 == <<"abc123">>
K2 == <<"k2">>

PipeSenders ==
    {[path |-> PathMsg1, key |-> K1, text |-> "task: one"],
     [path |-> PathMsg1, key |-> K1, text |-> "task: two"],
     [path |-> PathMsg1, key |-> K2, text |-> "task: one"],
     [path |-> PathMsg2, key |-> K1, text |-> "task: one"],
     [path |-> PathMsg1, key |-> NoKey, text |-> "task: one"]}

\* requests arrive at once or after the window has passed
PipeTimes == {clock, clock + Ticks(WindowSeconds) + 1}

NextPipe ==
    \/ \E s \in PipeSenders, now \in PipeTimes :
          Len(reqs) < MaxPipeReq /\ Enter("u1", "h1", "POST", s.path, s.key, s.text, now, 0)
    \/ \E i \in 1..MaxPipeReq, out \in Outcomes : Handle(i, out, clock)
    \/ \E i \in 1..MaxPipeReq : Finish(i)

\* =====================================================================
\* Part IV.  The helpers of the orchestrator, called on their own
\* =====================================================================

\* ---- _is_brain_dump
\* a text, as far as the heuristics measure it: its length, its newlines, its
\* full stops, its other sentence terminators ("!" and "?"), its commas,
\* whether a configured action keyword occurs in it and how many of its words
\* are configured organizational keywords
BrainDumpTexts ==
    [len : (BrainDumpThreshold - Around)..(BrainDumpThreshold + Around),
     newlines : (2 - Around)..(2 + Around),
     stops : (3 - Around)..(3 + Around),
     other_terminators : 0..Around,
     commas : (4 - Around)..(4 + Around),
     action_kw : BOOLEAN,
     org_words : (2 - Around)..(2 + Around)]

Count(b) == IF b THEN 1 ELSE 0

\* lines 104-111: the six indicators, summed
BrainDumpIndicators(text) ==
    Count(text.len > BrainDumpThreshold)
    + Count(text.newlines > 2)
    + Count(text.stops > 3)
    + Count(text.commas > 4)
    + Count(text.action_kw)
    + Count(text.org_words > 2)

\* _is_brain_dump called on a measured text
IsBrainDumpCall ==
    /\ call.fn = "_is_brain_dump" /\ ~call.done
    /\ call' = [call EXCEPT !.done = TRUE,
                  !.result = IsBrainDump([indicators |-> BrainDumpIndicators(call.text)])]
    /\ UNCHANGED <<pipeVars, orchVars, convVars>>

InitBrainDump ==
    \E text \in BrainDumpTexts :
        InitState(MainDefaultConfig, MainEndpointConfigs, TRUE,
                  [fn |-> "_is_brain_dump", done |-> FALSE, text |-> text,
                   result |-> FALSE])

NextBrainDump == IsBrainDumpCall

\* ---- the truncation at the end of _get_conversation_context
\* lengths of message contents: short, half the budget, the budget, beyond it
ContentLengths == {1, MaxContextTokens \div 2, MaxContextTokens, MaxContextTokens + 1}

\* context messages, oldest first: the k-th carries id k and a content length
Contexts ==
    UNION {{[k \in 1..n |-> [id |-> k, len |-> lens[k]]] : lens \in [1..n -> ContentLengths]}
           : n \in 0..MaxContext}

RECURSIVE TotalChars(_)
TotalChars(context_messages) ==
    IF context_messages = <<>> THEN 0
    ELSE Head(context_messages).len + TotalChars(Tail(context_messages))

\* lines 54-59: from the newest message backwards, stop at the first message
\* that does not fit; what was passed is kept, oldest first
RECURSIVE KeepMostRecent(_, _)
KeepMostRecent(context_messages, current_chars) ==
    IF context_messages = <<>> THEN <<>>
    ELSE LET msg == context_messages[Len(context_messages)]
         IN  IF current_chars + msg.len > MaxContextTokens THEN <<>>
             ELSE Append(KeepMostRecent(SubSeq(context_messages, 1, Len(context_messages) - 1),
                                        current_chars + msg.len),
                         msg)

\* lines 49-62
TruncateContext(context_messages) ==
    IF TotalChars(context_messages) > MaxContextTokens
    THEN KeepMostRecent(context_messages, 0)
    ELSE context_messages

TruncateCall ==
    /\ call.fn = "truncate" /\ ~call.done
    /\ call' = [call EXCEPT !.done = TRUE, !.result = TruncateContext(call.context)]
    /\ UNCHANGED <<pipeVars, orchVars, convVars>>

InitTruncate ==
    \E context \in Contexts :
        InitState(MainDefaultConfig, MainEndpointConfigs, TRUE,
                  [fn |-> "truncate", done |-> FALSE, context |-> context,
                   result |-> <<>>])

NextTruncate == TruncateCall

\* ---- the pipeline for paths and keys that hold the separator "|"
\* POST /api/notes with key "a|b"; POST /api/notes%7Ca, whose decoded path
\* is /api/notes|a, with key "b"; POST /api/notes with key "b"
BarSenders ==
    {[path |-> PathNotes, key |-> <<"a", "|", "b">>],
     [path |-> PathNotes \o <<"|", "a">>, key |-> <<"b">>],
     [path |-> PathNotes, key |-> <<"b">>]}

NextPipeBar ==
    \/ \E s \in BarSenders, now \in PipeTimes :
          Len(reqs) < MaxPipeReq /\ Enter("u1", "h1", "POST", s.path, s.key, "t", now, 0)
    \/ \E i \in 1..MaxPipeReq, out \in Outcomes : Handle(i, out, clock)
    \/ \E i \in 1..MaxPipeReq : Finish(i)

\* ---- the rate limiter for requests of no named class
\* GET /api/notes/{id}
PathNote(id) == PathNotes \o <<"/", ToString(id)>>

\* one user-key reads notes by id, one request after another, each at the
\* time of the previous one or a tick later
NextRLPaths ==
    \/ \E id \in 1..MaxIds, now \in {clock, clock + 1} :
          Len(reqs) < MaxIds /\ AllDone
          /\ Enter("u1", "h1", "GET", PathNote(id), NoKey, "t", now, 0)
    \/ \E i \in 1..MaxIds : Handle(i, "ok", clock)
    \/ \E i \in 1..MaxIds : Finish(i)

vars == <<pipeVars, orchVars, convVars, fnVars>>

SpecRL == InitMain /\ [][NextRL]_vars

SpecRLConc == InitMain /\ [][NextRLConc]_vars

SpecRLAny == InitRLAny /\ [][NextRL]_vars

SpecPipe == InitMain /\ [][NextPipe]_vars

SpecOrch == InitMain /\ [][NextOrch]_vars

SpecPipeBar == InitMain /\ [][NextPipeBar]_vars

SpecRLPaths == InitMain /\ [][NextRLPaths]_vars

SpecConv == InitMain /\ [][NextConv]_vars

SpecBrainDump == InitBrainDump /\ [][NextBrainDump]_vars

SpecTruncate == InitTruncate /\ [][NextTruncate]_vars

\* ------------------------------------------- rate limiter: the claims
Reqs == 1..Len(reqs)

SameBucket(i, j) ==
    reqs[i].user_key = reqs[j].user_key /\ reqs[i].endpoint_key = reqs[j].endpoint_key

WindowOf(i) == Ticks(reqs[i].config.window_seconds)

\* the requests admitted before request i for the same user-key and class whose
\* timestamps had not expired when request i arrived
PriorAdmitted(i) ==
    {j \in 1..(i - 1) : SameBucket(i, j) /\ reqs[j].is_allowed
                        /\ ~(reqs[j].now < reqs[i].now - WindowOf(i))}

\* no earlier request of the same user-key and class is still inside the window
FreshStart(i) ==
    \A j \in 1..(i - 1) : SameBucket(i, j) => reqs[j].now < reqs[i].now - WindowOf(i)

RunOf(a, b) == {j \in a..b : SameBucket(a, j)}

HeaderValues(resp, name) ==
    {resp.headers[k][2] : k \in {k \in 1..Len(resp.headers) : resp.headers[k][1] = name}}

\* C3: when a user-key sends limit+1 requests of one class within the window,
\* starting from an expired or empty bucket, the first limit requests are
\* admitted and the last one is rejected with status 429.
C3_ExactlyOneRejection ==
    \A a \in Reqs : \A b \in Reqs :
        ( /\ a < b
          /\ SameBucket(a, b)
          /\ FreshStart(a)
          /\ Cardinality(RunOf(a, b)) = reqs[a].config.limit + 1
          /\ reqs[b].now - reqs[a].now <= WindowOf(a) )
        => /\ \A j \in RunOf(a, b) \ {b} : reqs[j].is_allowed
           /\ ~reqs[b].is_allowed
           /\ reqs[b].client.status = 429

\* limit+1 requests inside one window, the last one rejected
C3_Witness ==
    \E a \in Reqs : \E b \in Reqs :
        /\ a < b /\ SameBucket(a, b) /\ FreshStart(a)
        /\ Cardinality(RunOf(a, b)) = reqs[a].config.limit + 1
        /\ reqs[b].now - reqs[a].now <= WindowOf(a)
        /\ reqs[b].client.status = 429

\* C4: without the sweep a request is admitted iff fewer than limit earlier
\* admitted requests of the same user-key and class are unexpired at its
\* arrival, and the bucket holds exactly the unexpired admitted timestamps.
C4_AdmissionRule ==
    ~enable_cleanup =>
        \A i \in Reqs :
            /\ reqs[i].is_allowed <=>
                   Cardinality(PriorAdmitted(i)) < reqs[i].config.limit
            /\ (\A j \in (i + 1)..Len(reqs) : ~SameBucket(i, j)) =>
                   Len(BucketOf(buckets, reqs[i].user_key, reqs[i].endpoint_key))
                     = Cardinality(PriorAdmitted(i))
                       + (IF reqs[i].is_allowed THEN 1 ELSE 0)

\* an admission that only the expiry of earlier timestamps made possible, next
\* to a request of another user-key
C4_Witness ==
    /\ ~enable_cleanup
    /\ \E i \in Reqs :
          /\ reqs[i].is_allowed
          /\ Cardinality({j \in 1..(i - 1) : SameBucket(i, j) /\ reqs[j].is_allowed})
                >= reqs[i].config.limit

\* C5: the remaining value on an admitted response is limit minus the number
\* of unexpired earlier admitted requests minus one, and is never negative.
C5_Remaining ==
    \A i \in Reqs :
        (reqs[i].is_allowed /\ reqs[i].client.status = 200) =>
            /\ HeaderValues(reqs[i].client, "x-ratelimit-remaining")
                  = {reqs[i].config.limit - Cardinality(PriorAdmitted(i)) - 1}
            /\ \A v \in HeaderValues(reqs[i].client, "x-ratelimit-remaining") : v >= 0
            /\ \A a \in 1..i :
                  ( /\ SameBucket(a, i) /\ FreshStart(a)
                    /\ reqs[i].now - reqs[a].now <= WindowOf(a) )
                  => reqs[i].remaining = reqs[i].config.limit - Cardinality(RunOf(a, i))

\* the last admitted response of a full window reports remaining 0
C5_Witness ==
    \E i \in Reqs :
        /\ reqs[i].is_allowed /\ reqs[i].client.status = 200
        /\ PriorAdmitted(i) # {}
        /\ Cardinality(PriorAdmitted(i)) = reqs[i].config.limit - 1
        /\ HeaderValues(reqs[i].client, "x-ratelimit-remaining") = {0}

\* C6: the admitted requests of one user-key and class whose timestamps lie
\* within one window never outnumber the class limit.
C6_NoDoubleAdmission ==
    \A i \in Reqs :
        reqs[i].is_allowed =>
            Cardinality({j \in Reqs : /\ SameBucket(i, j) /\ reqs[j].is_allowed
                                      /\ reqs[j].now <= reqs[i].now
                                      /\ reqs[j].now >= reqs[i].now - WindowOf(i)})
              <= reqs[i].config.limit

\* two admitted requests still in the application while a third is rejected
C6_Witness ==
    \E i \in Reqs : \E j \in Reqs : \E k \in Reqs :
        /\ i < j /\ j < k
        /\ reqs[i].stage = "app" /\ reqs[j].stage = "app"
        /\ ~reqs[k].is_allowed

\* C7: the reset time lies strictly after now and at most one window after
\* now; a rejection reports remaining 0 and retry_after > 0.
C7_ResetAndRetryAfter ==
    \A i \in Reqs :
        /\ reqs[i].reset_time > reqs[i].now
        /\ reqs[i].reset_time <= reqs[i].now + WindowOf(i)
        /\ ~reqs[i].is_allowed =>
              /\ HeaderValues(reqs[i].client, "x-ratelimit-remaining") = {0}
              /\ reqs[i].client.body.retry_after > 0

\* ------------------------------------------- idempotency: the claims
SameFingerprint(i, j) ==
    Fingerprint(reqs[i].path, reqs[i].key) = Fingerprint(reqs[j].path, reqs[j].key)

SamePathAndKey(i, j) == reqs[i].path = reqs[j].path /\ reqs[i].key = reqs[j].key

\* request i went through the application and its response was stored
Stored(i) == reqs[i].stage = "done" /\ reqs[i].via = "downstream"

\* request i reached the idempotency gate carrying a key
Keyed(i) == reqs[i].key # NoKey /\ reqs[i].is_allowed

\* C1: a request that carries key k on path p and arrives after a request of
\* the same k and p has completed with its response stored is answered with a
\* stored status, body and header list, and the application is not invoked.
C1_ReplayStored ==
    \A j \in Reqs :
        (Keyed(j) /\ \E i \in reqs[j].doneBefore : SamePathAndKey(i, j) /\ Stored(i))
        => /\ reqs[j].via = "replay"
           /\ ~reqs[j].invoked /\ ~reqs[j].executed
           /\ \E i \in reqs[j].doneBefore :
                 /\ SameFingerprint(i, j) /\ Stored(i)
                 /\ reqs[j].captured = reqs[i].captured

\* a replay answers a request whose text differs from the stored answer's
C1_Witness ==
    \E j \in Reqs :
        /\ reqs[j].via = "replay"
        /\ reqs[j].captured.status = 200
        /\ reqs[j].captured.body.text # reqs[j].text
        /\ Len(reqs[j].captured.headers) > 0

\* C2: of the requests that carry one key on one path, at most one is passed
\* on to the application.
C2_AtMostOnce ==
    \A i \in Reqs : \A j \in Reqs :
        (i < j /\ reqs[i].key # NoKey /\ SamePathAndKey(i, j))
        => ~(reqs[i].invoked /\ reqs[j].invoked)

\* C8: two answered requests with the same path and key that differ in their
\* text have the same status and the same body.
C8_SameResponse ==
    \A i \in Reqs : \A j \in Reqs :
        ( /\ i < j /\ reqs[i].key # NoKey /\ SamePathAndKey(i, j)
          /\ reqs[i].text # reqs[j].text
          /\ reqs[i].client # NoResp /\ reqs[j].client # NoResp )
        => /\ reqs[i].client.status = reqs[j].client.status
           /\ reqs[i].client.body = reqs[j].client.body

\* C9: when the first request of a key and path ended in a failure, a retry
\* is answered from the cache and the application is not invoked again.
C9_RetryAfterFailure ==
    \A j \in Reqs :
        ( /\ Keyed(j)
          /\ \E i \in reqs[j].doneBefore :
                /\ SamePathAndKey(i, j) /\ reqs[i].invoked
                /\ reqs[i].client.status >= 400 )
        => reqs[j].via = "replay" /\ ~reqs[j].invoked

\* ------------------------------------------- orchestrator: the claims
Rows(s) == {s[k] : k \in 1..Len(s)}

\* ------------------------------------------- telemetry middleware: the claims
IsEnd(e) == e.ev \in {"end", "end_error"}

Position(seq, name) == {k \in 1..Len(seq) : seq[k].ev = name}

\* C17: a request that reaches TelemetryMiddleware has its start event before
\* the downstream application runs; once the downstream has returned or
\* raised there is exactly one end event, after the downstream, with the id of
\* the start event (an end with the error when the downstream raised); and no
\* request has an end event without an earlier start event of the same id.
C17_StartBeforeEnd ==
    \A i \in Reqs :
        LET e == reqs[i].events IN
        /\ reqs[i].invoked => (Len(e) >= 1 /\ e[1].ev = "start")
        /\ \A k \in 1..Len(e) :
              /\ e[k].ev = "app" => \E j \in 1..(k - 1) : e[j].ev = "start"
              /\ IsEnd(e[k]) => \E j \in 1..(k - 1) : e[j] = RequestStart(e[k].id)
        /\ reqs[i].executed
              => /\ Cardinality({k \in 1..Len(e) : IsEnd(e[k])}) = 1
                 /\ \A k \in 1..Len(e) :
                       IsEnd(e[k]) => \E j \in 1..(k - 1) : e[j].ev = "app"
                 /\ (reqs[i].via = "exception") = (Position(e, "end_error") # {})
        /\ ~reqs[i].executed => \A k \in 1..Len(e) : ~IsEnd(e[k])

C17_Witness ==
    \E i \in Reqs : \E j \in Reqs :
        /\ reqs[i].via = "exception"
        /\ reqs[i].events = <<RequestStart(i), AppRan(i), [ev |-> "end_error", id |-> i]>>
        /\ reqs[j].stage = "done" /\ reqs[j].via = "downstream"
        /\ Position(reqs[j].events, "end") = {3}

Answered(i) == reqs[i].client # NoResp

\* C18: every response handed to a client carries the four rate-limit headers
\* limit, remaining, reset and window.
C18_RateLimitHeadersEverywhere ==
    \A i \in Reqs :
        Answered(i)
        => \A name \in {"x-ratelimit-limit", "x-ratelimit-remaining",
                        "x-ratelimit-reset", "x-ratelimit-window"} :
              HeaderValues(reqs[i].client, name) # {}

\* C19: every response handed to a client carries an x-response-time header
\* and the x-request-id that the telemetry middleware generated for the
\* request being answered.  Stated over the responses the middleware stack
\* itself sends (routed, rate-limited and replayed ones).
C19_TelemetryHeadersEverywhere ==
    \A i \in Reqs :
        Answered(i) /\ reqs[i].via # "exception"
        => /\ HeaderValues(reqs[i].client, "x-request-id") = {i}
           /\ HeaderValues(reqs[i].client, "x-response-time") # {}

\* C20: deleting an existing conversation succeeds and removes it together
\* with all of its messages, also while Notes or Tasks still reference it, and
\* afterwards the user has at least one conversation.
C20_DeleteAlwaysSucceeds ==
    last_delete.found
    => /\ last_delete.status = 200
       /\ ConversationOf(last_delete.conversation_id) = {}
       /\ MessagesOf(last_delete.conversation_id) = {}
       /\ ConversationsOfUser(tables, last_delete.user_id) # {}

\* the signals of a text as the specification counts them: a sentence ends in
\* a full stop, an exclamation mark or a question mark
SignalsFiring(text) ==
    Count(text.len > 100)
    + Count(text.newlines > 2)
    + Count(text.stops + text.other_terminators > 3)
    + Count(text.commas > 4)
    + Count(text.action_kw)
    + Count(text.org_words > 2)

\* C21: _is_brain_dump returns true iff at least two of the six signals fire
\* (length, newlines, sentence terminators, commas, action keyword,
\* organizational keywords).
C21_TwoSignalsIffBrainDump ==
    (call.fn = "_is_brain_dump" /\ call.done)
    => (call.result <=> SignalsFiring(call.text) >= 2)

\* C22: the context handed to the LLM is the (up to ContextWindowSize) most
\* recent messages that precede the just-inserted user message, oldest first,
\* and never holds the just-inserted user message itself.
C22_ContextPrecedesCurrent ==
    orch.pc = "hm_detect"
    => /\ orch.ctx = LastN(SelectSeq(store, IsMessage), ContextWindowSize)
       /\ \A k \in 1..Len(orch.ctx) :
             ~(orch.ctx[k].kind = "user" /\ orch.ctx[k].msg = orch.msg)

IsSuffix(s, t) == Len(s) <= Len(t) /\ s = SubSeq(t, Len(t) - Len(s) + 1, Len(t))

\* C23: when the context exceeds the budget, the truncation returns a suffix
\* of the context that fits the budget and still holds the newest message.
C23_TruncationKeepsNewest ==
    (call.fn = "truncate" /\ call.done
     /\ TotalChars(call.context) > MaxContextTokens)
    => /\ IsSuffix(call.result, call.context)
       /\ TotalChars(call.result) <= MaxContextTokens
       /\ call.result # <<>>
       /\ call.result[Len(call.result)] = call.context[Len(call.context)]

\* every timestamp of every queue of the user-key has left its class window
FullyExpired(u, now) ==
    \A e \in DOMAIN buckets[u] :
        \A k \in 1..Len(buckets[u][e]) :
            buckets[u][e][k] < now - Ticks(GetConfigForEndpoint(e).window_seconds)

\* a request arrives and the sweep runs: of the user-keys other than the
\* sender's (which the request itself re-creates), exactly the fully expired
\* ones are gone afterwards, and the previous sweep lies at least
\* cleanup_interval back
SweepStep ==
    (Len(reqs') = Len(reqs) + 1 /\ reqs'[Len(reqs')].swept)
    => LET r == reqs'[Len(reqs')]
       IN  /\ \A u \in (DOMAIN buckets) \ {r.user_key} :
                 (u \notin DOMAIN buckets') <=> FullyExpired(u, r.now)
           /\ r.now - last_cleanup >= Ticks(default_config.cleanup_interval)

\* C24: a sweep removes every user-key all of whose queues have fully expired
\* with respect to their class windows and no other, and two sweeps are at
\* least cleanup_interval apart.
C24_SweepRemovesExpiredOnly == [][SweepStep]_vars

\* C10: handle_message flushes the user Message before any call of the LLM
\* provider, and once handle_message has re-raised an exception to the route
\* layer and the request is over, that user Message is in the committed store.
C10_UserMessageCommitted ==
    /\ \A k \in 1..Len(trace) :
          trace[k] = "llm_call" => \E j \in 1..(k - 1) : trace[j] = "flush_user"
    /\ (orch.pc = "idle" /\ orch.outcome = "raised" /\ orch.reraised)
          => Row("user", orch.msg) \in Rows(store)

\* the message in hand has been handled to its end (not a 404)
Handled == orch.pc = "idle" /\ orch.outcome \in {"returned", "raised"}

CountRows(kind, msg) == Cardinality({k \in 1..Len(store) : store[k] = Row(kind, msg)})

CountTrace(name) == Cardinality({k \in 1..Len(trace) : trace[k] = name})

LlmFailed == \E k \in 1..Len(orch.calls) : orch.calls[k].kind \in {"raise", "unusable"}

\* C11: when a call of the LLM provider raised or returned output the path
\* cannot use, and nothing else fails (data store, prompt configuration; the
\* telemetry logger does not raise), handle_message raises nothing: it returns
\* a note or task result, that one entity and one assistant Message of the
\* message are committed, and the orchestrator result is reported once with
\* success = true and never with success = false.
C11_LlmFailureFallsBack ==
    (Handled /\ orch.faults = {} /\ LlmFailed)
    => /\ orch.outcome = "returned" /\ ~orch.reraised
       /\ orch.result \in {"note", "task"}
       /\ CountRows(orch.result, orch.msg) = 1
       /\ CountRows("note", orch.msg) + CountRows("task", orch.msg) = 1
       /\ CountRows("assistant", orch.msg) = 1
       /\ CountTrace("ev_result_ok") = 1 /\ CountTrace("ev_result_fail") = 0

C11_Witness ==
    /\ Handled /\ orch.faults = {} /\ orch.outcome = "returned"
    /\ orch.calls = <<[path |-> "brain_dump", kind |-> "unusable"],
                      [path |-> "simple", kind |-> "raise"]>>
    /\ orch.result = "task"

SimpleRaise == [path |-> "simple", kind |-> "raise"]

OtherKind(kind) == IF kind = "task" THEN "note" ELSE "task"

\* what the claim expects of a text: a task iff it holds a task keyword
KeywordKind == IF orch.text.task_kw THEN "task" ELSE "note"

\* C12: when the simple-message LLM call raised, the entity persisted for the
\* message is a Task iff the text holds a configured task keyword and a Note
\* otherwise (exactly one such entity when the data store and the prompt
\* configuration work), and the raising call is the last LLM call of the
\* message: the fallback branch calls the LLM no more.
C12_FallbackByKeyword ==
    (Handled /\ orch.calls # <<>> /\ orch.calls[Len(orch.calls)] = SimpleRaise)
    => /\ CountRows(OtherKind(KeywordKind), orch.msg) = 0
       /\ (orch.faults \cap {"db", "cfg"} = {}
             => /\ CountRows(KeywordKind, orch.msg) = 1
                /\ (orch.outcome = "returned" => orch.result = KeywordKind)
                /\ \A k \in 1..Len(orch.calls) :
                      orch.calls[k] = SimpleRaise => k = Len(orch.calls))

C12_Witness ==
    /\ Handled /\ orch.outcome = "returned"
    /\ orch.calls = <<SimpleRaise>>
    /\ orch.text.task_kw /\ ~orch.text.marker
    /\ orch.result = "task" /\ CountRows("task", orch.msg) = 1

\* the brain-dump answer could not be used: it did not parse, was not of type
\* brain_dump with a list of items, or an item of its list raised
BrainDumpUnusable ==
    \/ \E k \in 1..Len(orch.calls) :
          orch.calls[k] = [path |-> "brain_dump", kind |-> "unusable"]
    \/ CountTrace("item_failed") > 0

\* C13: whenever the brain-dump answer cannot be used and nothing else fails
\* (prompt configuration, telemetry, no other failure of the data store), the
\* request ends with exactly one Note or Task of the message persisted.
C13_BrainDumpDegrades ==
    ( /\ Handled /\ BrainDumpUnusable
      /\ orch.faults \cap {"cfg", "tel"} = {} /\ CountTrace("db_failed") = 0 )
    => CountRows("note", orch.msg) + CountRows("task", orch.msg) = 1

Entities(msg) == CountRows("note", msg) + CountRows("task", msg)

\* C14: in every state of the committed store, a message has at most one
\* assistant Message, it has one whenever it has a Note or Task, and when the
\* assistant Message of the message in hand is committed, exactly the entities
\* it summarises (one, or the items of the brain dump) are committed with it.
C14_AssistantWithEntities ==
    /\ \A m \in 1..MaxMsgs :
          /\ CountRows("assistant", m) <= 1
          /\ (Entities(m) > 0 => CountRows("assistant", m) = 1)
    /\ (orch.result # "none" /\ CountRows("assistant", orch.msg) = 1)
          => Entities(orch.msg) =
                IF orch.result = "brain_dump" THEN orch.total_items ELSE 1

\* a commit failed, the fallback then committed one entity with its message
C14_Witness ==
    /\ Handled /\ CountTrace("db_failed") > 0
    /\ CountRows("assistant", orch.msg) = 1 /\ Entities(orch.msg) = 1
    /\ orch.input_type = "brain_dump"

\* C15: an exception that leaves handle_message from brain-dump detection or
\* from the simple or brain-dump processing is followed by exactly one
\* orchestrator-result event with success = false, and the request raises.
\* Stated for a telemetry logger that does not raise itself, so that the
\* failure event can be emitted at all.
C15_FailureEventOnce ==
    ( /\ Handled /\ "tel" \notin orch.faults
      /\ orch.raised_at \in {"detection", "try_block"} )
    => /\ orch.outcome = "raised"
       /\ CountTrace("ev_result_fail") = 1

Returned(k) == orch.calls[k].kind # "raise"

\* C16: with every collaborator but the LLM working, a handled message has
\* one LLM-call event per provider call (the trace holds "ev_llm_call" for an
\* event with success = true; an event with success = false would have to
\* follow each raising call), one user-activity event and one
\* orchestrator-result event.
C16_TelemetryPerCall ==
    (Handled /\ orch.faults = {})
    => /\ CountTrace("llm_call") = Len(orch.calls)
       /\ CountTrace("ev_llm_call") =
             Cardinality({k \in 1..Len(orch.calls) : Returned(k)})
       /\ \A k \in 1..Len(trace) :
             trace[k] = "llm_call"
             => k < Len(trace) /\ trace[k + 1] \in {"ev_llm_call", "ev_llm_call_failed"}
       /\ CountTrace("ev_user_activity") = 1
       /\ CountTrace("ev_result_ok") + CountTrace("ev_result_fail") = 1

ItemsCreated == IF orch.result = "brain_dump" THEN orch.total_items ELSE 1

\* C25: a message whose orchestrator result was reported with success = true
\* has created at least one Note or Task, and the reported items_created
\* equals the number of Notes and Tasks persisted for the message.
C25_SuccessMeansEntities ==
    (Handled /\ CountTrace("ev_result_ok") > 0)
    => /\ Entities(orch.msg) >= 1
       /\ ItemsCreated = Entities(orch.msg)

\* C26: on the simple-message path, when the text holds an explicit task
\* marker and the LLM returned a parseable JSON object, the persisted entity
\* and the returned result are of type task, whatever the object says.
C26_MarkerMeansTask ==
    (/\ Handled /\ orch.faults = {}
     /\ orch.input_type = "simple_message" /\ orch.text.marker
     /\ orch.calls = <<[path |-> "simple", kind |-> "usable"]>>)
    => /\ orch.result = "task"
       /\ CountRows("task", orch.msg) = 1
       /\ CountRows("note", orch.msg) = 0

\* C27: with the sweep enabled the limiter decides every request as it does
\* with the sweep disabled: a request is admitted iff fewer than limit earlier
\* admitted requests of its user-key and class are still inside the class
\* window at its arrival.
C27_SweepKeepsDecisions ==
    enable_cleanup =>
        \A i \in Reqs :
            reqs[i].is_allowed <=> Cardinality(PriorAdmitted(i)) < reqs[i].config.limit

\* C28: a request is answered by a replay only of a response that was stored
\* for a request with the same path and the same idempotency key, also when
\* paths or keys hold the character "|".
C28_ReplayOnlySamePathAndKey ==
    \A j \in Reqs :
        reqs[j].via = "replay"
        => \E i \in 1..(j - 1) :
              /\ reqs[i].path = reqs[j].path /\ reqs[i].key = reqs[j].key
              /\ reqs[i].via = "downstream" /\ reqs[i].stage = "done"
              /\ reqs[i].captured = reqs[j].captured

\* C29: handle_message calls the LLM provider at most twice for one message,
\* at most once with the brain-dump prompt and then at most once with the
\* simple prompt, whatever the LLM returns and wherever the data store fails
\* (the prompt configuration and the telemetry logger work).
C29_AtMostTwoLlmCalls ==
    orch.faults \subseteq {"db"}
    => /\ Len(orch.calls) <= 2
       /\ Cardinality({k \in 1..Len(orch.calls) : orch.calls[k].path = "brain_dump"}) <= 1
       /\ Cardinality({k \in 1..Len(orch.calls) : orch.calls[k].path = "simple"}) <= 1

Unnamed(i) == reqs[i].endpoint_key \notin DOMAIN endpoint_configs

\* the admitted requests of no named class that the user-key of request i has
\* sent in the window that ends with request i
AdmittedInWindow(i) ==
    {j \in 1..i :
        /\ reqs[j].user_key = reqs[i].user_key
        /\ Unnamed(j) /\ reqs[j].is_allowed
        /\ reqs[i].now - reqs[j].now < Ticks(default_config.window_seconds)}

\* C30: within any single window a user-key gets at most the default limit of
\* requests of no named class admitted, however many paths or resource ids
\* they address.
C30_DefaultLimitAcrossPaths ==
    \A i \in Reqs :
        (Unnamed(i) /\ reqs[i].is_allowed)
        => Cardinality(AdmittedInWindow(i)) <= default_config.limit

====
